---- MODULE Spec2Model ----
(***************************************************************************)
(* Battery-state estimation engine of pi-battery.py: the rolling averager  *)
(* (HistAvg), the SoC estimator, the calibration controller with its       *)
(* persistence, the status classifier with the near-full override and the  *)
(* remaining-time projection, tied together by BatteryEstimator.step.      *)
(*                                                                         *)
(* Units.  Python floats are modelled by exact integers in a unit in which *)
(* the sampled values are whole numbers:                                   *)
(*   bus voltage    mV                  (an int in the source)             *)
(*   shunt voltage  0.01 mV, the INA219 LSB (shunt_raw * 0.01)             *)
(*   current        uA; samples are multiples of CurrentGrain_uA = 1/64 A, *)
(*                  which are exact doubles, so |x| * 1_000_000 is exact   *)
(*   power          mW                                                     *)
(* A mean returned by HistAvg.add is the rational [num, den].  Where a     *)
(* float result is truncated to an int and the exact value is a whole      *)
(* number that the float computation only approximates, both outcomes of   *)
(* the rounding are kept (TruncChoices).                                   *)
(***************************************************************************)
EXTENDS Integers, Sequences, FiniteSets, TLC

\* ---------------------------------------------------------------------
\* Configuration
\* ---------------------------------------------------------------------
BAT_CELLS == 3
BAT_CELL_CAPACITY_mAh == 2600
BAT_VOLTAGE_HIGH_mV == 4128
BAT_VOLTAGE_LOW_mV == 3100
BAT_FULL_CLAMP == 99
VOLTAGE_HYSTERESIS_mV == 50
CALIBRATION_INTERVAL_S == 3600

\* shunt_voltage_mV = shunt_raw * 0.01: model units per mV
ShuntUnitsPer_mV == 100
\* THRESHOLD_DISCHARGE_mV = -3.0 and THRESHOLD_CHARGE_mV = 0.2, in shunt units
THRESHOLD_DISCHARGE_mV == (-3) * ShuntUnitsPer_mV
THRESHOLD_CHARGE_mV == (2 * ShuntUnitsPer_mV) \div 10

\* Derived constants
BAT_CAPACITY_mAh == BAT_CELLS * BAT_CELL_CAPACITY_mAh
BAT_VOLTAGE_FULL_mV == BAT_VOLTAGE_HIGH_mV * BAT_CELLS
BAT_VOLTAGE_EMPTY_mV == BAT_VOLTAGE_LOW_mV * BAT_CELLS
BAT_VOLTAGE_HYST_mV == VOLTAGE_HYSTERESIS_mV * BAT_CELLS

\* the sentinel current written by the near-full override
FULL_CURRENT_uA == 1000
\* 1/64 A in uA: current samples on this grid are exact doubles
CurrentGrain_uA == 1000000 \div 64

\* ---------------------------------------------------------------------
\* Bounds of the model
\* ---------------------------------------------------------------------
\* capacity of a HistAvg buffer (MAX_HISTORY = 500 in the source)
MaxHistory == 3
\* averaging window (AVG_WINDOW = 20 in the source)
AvgWindow == 2
\* timestamps reach MaxHours calibration intervals
MaxHours == 2
\* number of HistAvg.add calls followed in SpecHist
MaxAdds == 5
\* largest sample value fed to the single averager of SpecHist
MaxHistValue == 2
\* voltages examined around the interpolation range in SpecSoc
SocMargin == 200
\* largest step between consecutive SoC queries in SpecSoc
MaxDelta == 3
\* shunt readings examined around the thresholds in SpecStatus
ShuntMargin == 150
\* longest calibration file, in lines, loaded in SpecCal
MaxLines == 2
\* iterations of the loop of main followed in SpecMain
MaxTicks == 2

\* ---------------------------------------------------------------------
\* Arithmetic helpers
\* ---------------------------------------------------------------------
Min(a, b) == IF a <= b THEN a ELSE b
Max(a, b) == IF a >= b THEN a ELSE b
Abs(a) == IF a < 0 THEN -a ELSE a

RECURSIVE SumSeq(_)
SumSeq(s) == IF s = <<>> THEN 0 ELSE Head(s) + SumSeq(Tail(s))

\* the last n entries of s
LastN(s, n) == SubSeq(s, Len(s) - n + 1, Len(s))

\* int(x) for the exact rational x = n / d, d > 0: truncation toward zero
TruncDiv(n, d) == IF n >= 0 THEN n \div d ELSE -((-n) \div d)

\* b with every factor 2 removed
RECURSIVE OddPart(_)
OddPart(b) == IF b > 0 /\ b % 2 = 0 THEN OddPart(b \div 2) ELSE b

\* n / d (d > 0) is a dyadic rational, hence an exact double at these sizes
IsDyadic(n, d) == n % OddPart(d) = 0

\* int(float) where the float approximates the exact value whole + rem/den
\* (sign carried by whole): a non-whole exact value is far from the next
\* integer compared to the rounding error, so it truncates exactly; a whole
\* exact value computed through an inexact intermediate may land just
\* below it.
TruncChoices(whole, isWhole, exactFloat) ==
    IF isWhole /\ ~exactFloat /\ whole # 0
    THEN {whole, IF whole > 0 THEN whole - 1 ELSE whole + 1}
    ELSE {whole}

\* int(round(num / den)), den > 0: Python rounds halves to the even integer
RoundHalfEven(num, den) ==
    LET q == num \div den
        r == num % den
    IN  IF 2 * r < den THEN q
        ELSE IF 2 * r > den THEN q + 1
        ELSE IF q % 2 = 0 THEN q ELSE q + 1

\* ---------------------------------------------------------------------
\* HistAvg
\* ---------------------------------------------------------------------
\* variant: a full deque refuses the new value instead of dropping its oldest
HistAppend_keep_oldest(buf, value) ==
    IF Len(buf) >= MaxHistory THEN buf ELSE Append(buf, value)

\* self.buf.append(float(value)) on a deque(maxlen = MAX_HISTORY)
HistAppend(buf, value) ==
    IF Len(buf) >= MaxHistory
    THEN Tail(buf) \o <<value>>
    ELSE Append(buf, value)

\* variant: the mean of the last AvgWindow entries only
HistMean_window_only(buf, value) ==
    IF Len(buf) >= AvgWindow
    THEN [num |-> SumSeq(LastN(buf, AvgWindow)), den |-> AvgWindow]
    ELSE [num |-> value, den |-> 1]

\* the value returned by HistAvg.add, given the buffer after the append
HistMean(buf, value) ==
    IF Len(buf) >= AvgWindow
    THEN [num |-> SumSeq(buf), den |-> Len(buf)]
    ELSE [num |-> value, den |-> 1]

\* sum(self.buf) / len(self.buf) is computed in doubles, [num, den] above
\* is its exact value. With entries counted in hundredths, an entry is an
\* exact double iff it is dyadic. FALSE: the returned double is the exact
\* mean of the stored doubles, correctly rounded (one or two entries, or
\* exact partial sums). Otherwise the roundings of the partial sums may
\* also leave a neighbouring double (TRUE), depending on the operands' bits.
MeanOff(buf) ==
    IF \/ Len(buf) < AvgWindow
       \/ Len(buf) <= 2
       \/ \A i \in 1..Len(buf) : IsDyadic(buf[i], ShuntUnitsPer_mV)
    THEN {FALSE}
    ELSE BOOLEAN

\* HistAvg.add: the new buffer and the returned float
HistAvg_add(buf, value) ==
    LET nb == HistAppend(buf, value)
    IN  [buf |-> nb, ret |-> HistMean(nb, value)]

\* ---------------------------------------------------------------------
\* Core computations of BatteryEstimator
\* ---------------------------------------------------------------------
\* variant: int(result) + 1 even when the quotient is whole
CeilDiv_always_up(num, den) == (num \div den) + 1

\* int(math.ceil(num / den)) for num / den not in the clamped ranges
CeilDiv(num, den) ==
    IF num % den = 0 THEN num \div den ELSE (num \div den) + 1

\* variant: the clamp at the empty voltage is missing
soc_percent_unclamped_low(v_mV) ==
    IF v_mV >= BAT_VOLTAGE_FULL_mV THEN 100
    ELSE CeilDiv((v_mV - BAT_VOLTAGE_EMPTY_mV) * 100,
                 BAT_VOLTAGE_FULL_mV - BAT_VOLTAGE_EMPTY_mV)

soc_percent_from_voltage_mV(v_mV) ==
    IF v_mV >= BAT_VOLTAGE_FULL_mV THEN 100
    ELSE IF v_mV <= BAT_VOLTAGE_EMPTY_mV THEN 0
    ELSE CeilDiv((v_mV - BAT_VOLTAGE_EMPTY_mV) * 100,
                 BAT_VOLTAGE_FULL_mV - BAT_VOLTAGE_EMPTY_mV)

\* variant: the discharge threshold itself counts as discharging
status_inclusive_discharge(shunt_mV) ==
    IF shunt_mV <= THRESHOLD_DISCHARGE_mV THEN 2
    ELSE IF shunt_mV > THRESHOLD_CHARGE_mV THEN 1
    ELSE 0

\* 2 discharging, 1 charging, 0 full or small current
status_from_shunt_mV(shunt_mV) ==
    IF shunt_mV < THRESHOLD_DISCHARGE_mV THEN 2
    ELSE IF shunt_mV > THRESHOLD_CHARGE_mV THEN 1
    ELSE 0

\* variant: the interval is measured one second short
RateLimited_short(last, now_s) == now_s - last < CALIBRATION_INTERVAL_S - 1

\* the rate-limit guard of calibrate_if_full: TRUE when the call returns early
RateLimited(last, now_s) == now_s - last < CALIBRATION_INTERVAL_S

\* variant: the near-full window excludes its lower boundary
CalibrationFires_exclusive_window(full, last, voltage_mV, charge_now_uAh, now_s) ==
    /\ ~RateLimited(last, now_s)
    /\ voltage_mV > BAT_VOLTAGE_FULL_mV - BAT_VOLTAGE_HYST_mV
    /\ charge_now_uAh < full

\* variant: a charge equal to the full capacity also calibrates
CalibrationFires_inclusive_charge(full, last, voltage_mV, charge_now_uAh, now_s) ==
    /\ ~RateLimited(last, now_s)
    /\ voltage_mV >= BAT_VOLTAGE_FULL_mV - BAT_VOLTAGE_HYST_mV
    /\ charge_now_uAh <= full

\* the three conditions under which calibrate_if_full mutates the state
CalibrationFires(full, last, voltage_mV, charge_now_uAh, now_s) ==
    /\ ~RateLimited(last, now_s)
    /\ voltage_mV >= BAT_VOLTAGE_FULL_mV - BAT_VOLTAGE_HYST_mV
    /\ charge_now_uAh < full

\* variant: the weighted sum is divided by 19
SmoothedFull_div19(full, charge_now_uAh) == (full * 19 + charge_now_uAh) \div 19

\* smooth update: 19:1
SmoothedFull(full, charge_now_uAh) == (full * 19 + charge_now_uAh) \div 20

\* calibrate_if_full, without the save: the two fields afterwards
calibrate_if_full(full, last, voltage_mV, charge_now_uAh, now_s) ==
    IF CalibrationFires(full, last, voltage_mV, charge_now_uAh, now_s)
    THEN [full |-> SmoothedFull(full, charge_now_uAh), last |-> now_s, fired |-> TRUE]
    ELSE [full |-> full, last |-> last, fired |-> FALSE]

\* variant: only a Full status is clamped at BAT_FULL_CLAMP
NearFullClamp_full_only(soc_pct, status_int) ==
    soc_pct >= 100 \/ (soc_pct >= BAT_FULL_CLAMP /\ status_int = 0)

\* the condition of the near-full clamp in step
NearFullClamp(soc_pct, status_int) ==
    soc_pct >= 100 \/ (soc_pct >= BAT_FULL_CLAMP /\ status_int \in {0, 1})

\* floor(log2(n / d)) for n, d > 0
RECURSIVE Log2Up(_, _, _)
Log2Up(n, d, k) == IF 2 * d <= n THEN Log2Up(n, 2 * d, k + 1) ELSE k
RECURSIVE Log2Down(_, _, _)
Log2Down(n, d, k) == IF n < d THEN Log2Down(2 * n, d, k - 1) ELSE k
FloorLog2(n, d) == IF n >= d THEN Log2Up(n, d, 0) ELSE Log2Down(n, d, 0)

\* (r * 2^n) % b
RECURSIVE DoubleMod(_, _, _)
DoubleMod(r, n, b) == IF n = 0 THEN r ELSE DoubleMod((2 * r) % b, n - 1, b)

RECURSIVE Pow2(_)
Pow2(n) == IF n <= 0 THEN 1 ELSE 2 * Pow2(n - 1)

\* The double product (a / b) * 3600 lies below the whole number
\* w = a * 3600 / b (a, b > 0, a / b not dyadic).  x = a / b is rounded to 53
\* bits: with f = floor(log2(a / b)) the part cut off is rem / b units of
\* the last place, rem = (a * 2^(52 - f)) % b, and x is rounded down when
\* rem < b / 2.  The product x * 3600 is rounded to the double below w
\* when it misses w by more than half the spacing of the doubles below w,
\* 2^(e - 53) with e = floor(log2(w)), or 2^(e - 54) under a power of two:
\* rem * 3600 > b * 2^s.  (3600 = 225 * 16 keeps the products small.)
ProductBelowWhole(a, b, w) ==
    LET f   == FloorLog2(a, b)
        e   == FloorLog2(w, 1)
        rem == DoubleMod(a % b, 52 - f, b)
        s   == (e - f - 1) - (IF OddPart(w) = 1 THEN 1 ELSE 0)
    IN  /\ 2 * rem < b
        /\ rem * (3600 \div 16) > b * Pow2(s - 4)

\* variant: the hours are scaled to minutes instead of seconds
RemainChoices_in_minutes(charge_uAh, current_uA) ==
    {TruncDiv(charge_uAh * 60, Max(current_uA, 1))}

\* int((charge / max(current, 1)) * 3600) for non-negative current: the
\* exact value charge * 3600 / current is formed as (charge * 60 / b) * 60
\* to stay within the integer range; int() truncates toward zero, and a
\* whole exact value is missed by one when the double product lies below it
RemainChoices(charge_uAh, current_uA) ==
    LET b  == Max(current_uA, 1)
        a  == Abs(charge_uAh)
        q1 == (a * 60) \div b
        r1 == (a * 60) % b
        w  == q1 * 60 + (r1 * 60) \div b
        isWhole == (r1 * 60) % b = 0
        t  == IF isWhole /\ w > 0 /\ ~IsDyadic(a, b) /\ ProductBelowWhole(a, b, w)
              THEN w - 1 ELSE w
    IN  {IF charge_uAh < 0 THEN -t ELSE t}

\* variant: charge // max(current, 1) is taken before the factor 3600
battery_remain_sec_floor_first(status_int, charge_full_uAh, charge_now_uAh, current_now_avg_uA) ==
    IF status_int = 2
    THEN IF current_now_avg_uA <= 0 THEN {0}
         ELSE {(charge_now_uAh \div Max(current_now_avg_uA, 1)) * 3600}
    ELSE IF status_int = 1
    THEN IF current_now_avg_uA <= 0 THEN {0}
         ELSE {((charge_full_uAh - charge_now_uAh) \div Max(current_now_avg_uA, 1)) * 3600}
    ELSE {0}

\* the remaining-time projection of step
battery_remain_sec(status_int, charge_full_uAh, charge_now_uAh, current_now_avg_uA) ==
    IF status_int = 2
    THEN IF current_now_avg_uA <= 0 THEN {0}
         ELSE RemainChoices(charge_now_uAh, current_now_avg_uA)
    ELSE IF status_int = 1
    THEN IF current_now_avg_uA <= 0 THEN {0}
         ELSE RemainChoices(charge_full_uAh - charge_now_uAh, current_now_avg_uA)
    ELSE {0}

\* int(current_avg_A * 1_000_000) for the mean num / den in uA: a mean of
\* grid samples is an exact double iff it is on a dyadic grid itself
MicroAmpChoices(mean) ==
    TruncChoices(TruncDiv(mean.num, mean.den),
                 mean.num % mean.den = 0,
                 IsDyadic(mean.num \div CurrentGrain_uA, mean.den))

\* ---------------------------------------------------------------------
\* Calibration persistence: the file is a sequence of lines; a line holding
\* "=" is [form |-> "kv", k, v] with v the characters after the first "="
\* ---------------------------------------------------------------------
DigitChars == <<"0", "1", "2", "3", "4", "5", "6", "7", "8", "9">>

IsDigit(c) == \E i \in 1..Len(DigitChars) : DigitChars[i] = c
DigitVal(c) == (CHOOSE i \in 1..Len(DigitChars) : DigitChars[i] = c) - 1

\* str(n) for n >= 0
RECURSIVE NatToStr(_)
NatToStr(n) ==
    IF n < 10 THEN <<DigitChars[n + 1]>>
    ELSE NatToStr(n \div 10) \o <<DigitChars[(n % 10) + 1]>>

\* variant: the sign is dropped
IntToStr_unsigned(n) == NatToStr(Abs(n))

\* the text f"{n}" of an int
IntToStr(n) == IF n < 0 THEN <<"-">> \o NatToStr(-n) ELSE NatToStr(n)

\* the value of a string of digits
RECURSIVE DigitsToNat(_, _)
DigitsToNat(s, acc) ==
    IF s = <<>> THEN acc ELSE DigitsToNat(Tail(s), acc * 10 + DigitVal(Head(s)))

\* int(v) over the characters digits, "-", "+" and letters: ok = FALSE
\* stands for the ValueError
ParseInt(v) ==
    LET signed == v # <<>> /\ Head(v) \in {"-", "+"}
        body   == IF signed THEN Tail(v) ELSE v
        ok     == body # <<>> /\ \A i \in 1..Len(body) : IsDigit(body[i])
    IN  IF ~ok THEN [ok |-> FALSE, val |-> 0]
        ELSE [ok |-> TRUE,
              val |-> IF signed /\ Head(v) = "-"
                      THEN -DigitsToNat(body, 0) ELSE DigitsToNat(body, 0)]

KvLine(k, v) == [form |-> "kv", k |-> k, v |-> v]
OtherLine(form) == [form |-> form, k |-> "", v |-> <<>>]

\* the loop of _load_calibration over the remaining lines; a ValueError
\* leaves the loop through "except Exception" with the fields set so far
RECURSIVE LoadLines(_, _, _)
LoadLines(lines, full, last) ==
    IF lines = <<>> THEN [full |-> full, last |-> last]
    ELSE LET ln == Head(lines)
             p  == ParseInt(ln.v)
         IN  IF ln.form # "kv" THEN LoadLines(Tail(lines), full, last)
             ELSE IF ln.k = "DYNAMIC_CHARGE_FULL"
             THEN IF p.ok THEN LoadLines(Tail(lines), p.val, last)
                  ELSE [full |-> full, last |-> last]
             ELSE IF ln.k = "LAST_CALIBRATION_TIME"
             THEN IF p.ok THEN LoadLines(Tail(lines), full, p.val)
                  ELSE [full |-> full, last |-> last]
             ELSE LoadLines(Tail(lines), full, last)

\* __init__ defaults followed by _load_calibration
LoadCalibration(file) ==
    IF ~file.exists
    THEN [full |-> BAT_CAPACITY_mAh * 1000, last |-> 0]
    ELSE LoadLines(file.lines, BAT_CAPACITY_mAh * 1000, 0)

\* the file written by a successful _save_calibration
SavedFile(full, last) ==
    [exists |-> TRUE,
     lines  |-> << KvLine("DYNAMIC_CHARGE_FULL", IntToStr(full)),
                   KvLine("LAST_CALIBRATION_TIME", IntToStr(last)) >>]

NoFile == [exists |-> FALSE, lines |-> <<>>]

\* ---------------------------------------------------------------------
\* State
\* ---------------------------------------------------------------------
VARIABLES
    volt_hist, shunt_hist, curr_hist, power_hist,  \* buffers of the four HistAvg
    dynamic_charge_full_uAh, last_calibration_time,
    calib_file,     \* contents of CALIBRATION_FILE
    payload,        \* <<>> or <<the dict returned by the last step>>
    cal_times,      \* history: now_s of every call that calibrated
    hist,           \* buffer of the single HistAvg of SpecHist
    added,          \* history: every value given to that HistAvg
    arg, ret,       \* argument and result of the last function call
    pc,             \* position of main
    bus_held,       \* the SMBus handle of the INA219 is open
    closes,         \* number of calls of ina.close()
    exit_cause,     \* what made main leave, "none" while it runs
    ticks,          \* iterations of the loop completed
    reading         \* <<>> or <<the sample returned by read_all>>

est_vars == <<volt_hist, shunt_hist, curr_hist, power_hist,
              dynamic_charge_full_uAh, last_calibration_time,
              calib_file, payload, cal_times>>
fn_vars == <<hist, added, arg, ret>>
main_vars == <<pc, bus_held, closes, exit_cause, ticks, reading>>
vars == <<est_vars, fn_vars, main_vars>>

\* ---------------------------------------------------------------------
\* Inputs
\* ---------------------------------------------------------------------
Sample(bus, shunt, cur, power) ==
    [bus_voltage_mV |-> bus, shunt_voltage_mV |-> shunt,
     current_A |-> cur, power_W |-> power]

\* samples: no voltage on the bus (any mean that includes it is below the
\* empty voltage) with the shunt on the discharge threshold; 99 % charging
\* and 99 % discharging, both inside the near-full window; full and
\* discharging
Samples ==
    { Sample(0, THRESHOLD_DISCHARGE_mV, CurrentGrain_uA, 200),
      Sample(BAT_VOLTAGE_FULL_mV - 34, THRESHOLD_CHARGE_mV + 1, 32 * CurrentGrain_uA, 6000),
      Sample(BAT_VOLTAGE_FULL_mV - 34, THRESHOLD_DISCHARGE_mV - 1, -64 * CurrentGrain_uA, 12000),
      Sample(BAT_VOLTAGE_FULL_mV, THRESHOLD_DISCHARGE_mV - 1, -64 * CurrentGrain_uA, 12000) }

\* int(time.time()) of a tick: every multiple of the calibration interval
\* and the second before the last one
Times ==
    { h * CALIBRATION_INTERVAL_S : h \in 1..MaxHours } \cup
    { MaxHours * CALIBRATION_INTERVAL_S - 1 }

\* calibration files found at start-up: none; a capacity of 1 uAh; one with
\* a comment, a foreign key and a blank line; a capacity whose 99 % is
\* 3600000 uAh, last calibrated at a time the clock has not reached again;
\* a negative capacity
InitFiles ==
    { NoFile,
      [exists |-> TRUE,
       lines  |-> << KvLine("DYNAMIC_CHARGE_FULL", <<"1">>),
                     KvLine("LAST_CALIBRATION_TIME", <<"0">>) >>],
      [exists |-> TRUE,
       lines  |-> << OtherLine("comment"),
                     KvLine("DYNAMIC_CHARGE_FULL", <<"3", "0">>),
                     KvLine("OTHER", <<"x">>),
                     OtherLine("blank"),
                     KvLine("LAST_CALIBRATION_TIME", <<"3", "6", "0", "0">>) >>],
      [exists |-> TRUE,
       lines  |-> << KvLine("DYNAMIC_CHARGE_FULL",
                            <<"3", "6", "3", "6", "3", "6", "4">>),
                     KvLine("LAST_CALIBRATION_TIME",
                            <<"9", "9", "9", "9", "9", "9">>) >>],
      [exists |-> TRUE,
       lines  |-> << KvLine("DYNAMIC_CHARGE_FULL",
                            <<"-", "1", "0", "0", "0", "0", "0", "0">>) >>] }

\* ---------------------------------------------------------------------
\* Construction
\* ---------------------------------------------------------------------
\* BatteryEstimator() over the calibration file f
Constructed(f) ==
    /\ volt_hist = <<>>
    /\ shunt_hist = <<>>
    /\ curr_hist = <<>>
    /\ power_hist = <<>>
    /\ calib_file = f
    /\ dynamic_charge_full_uAh = LoadCalibration(f).full
    /\ last_calibration_time = LoadCalibration(f).last
    /\ payload = <<>>
    /\ cal_times = <<>>

FnIdle ==
    /\ hist = <<>>
    /\ added = <<>>
    /\ arg = 0
    /\ ret = <<>>

\* main is not part of the run: the estimator or a function is driven
\* directly
MainIdle ==
    /\ pc = "idle"
    /\ bus_held = FALSE
    /\ closes = 0
    /\ exit_cause = "none"
    /\ ticks = 0
    /\ reading = <<>>

Init ==
    /\ \E f \in InitFiles : Constructed(f)
    /\ FnIdle
    /\ MainIdle

\* ---------------------------------------------------------------------
\* variant: calibration is given the averaged bus voltage
CalibrationVoltage_averaged(bus_voltage_mV, bus_voltage_avg_mV) == bus_voltage_avg_mV

\* the voltage that step hands to calibrate_if_full: the raw sample
CalibrationVoltage(bus_voltage_mV, bus_voltage_avg_mV) == bus_voltage_mV

\* variant: the capacity is read again after the calibration
ReportedFull_after(before, after) == after

\* the charge_full_uAh of the returned dict: the local read before
\* calibrate_if_full is called, not the field as it is at the return
ReportedFull(before, after) == before

\* BatteryEstimator.step.  The locals are bound in the order the code
\* assigns them; now_s is the int(time.time()) read before the call of
\* calibrate_if_full, and saveOk tells whether the write of
\* _save_calibration succeeds (its failure is caught and only logged).
StepCore(sample) ==
    \E va \in {HistAvg_add(volt_hist, sample.bus_voltage_mV)} :
    \E sa \in {HistAvg_add(shunt_hist, Abs(sample.shunt_voltage_mV))} :
    \E ca \in {HistAvg_add(curr_hist, Abs(sample.current_A))} :
    \E pa \in {HistAvg_add(power_hist, sample.power_W)} :
    \E bus_voltage_avg_mV \in {RoundHalfEven(va.ret.num, va.ret.den)} :
    \E soc_pct \in {soc_percent_from_voltage_mV(bus_voltage_avg_mV)} :
    \E charge_full_uAh \in {dynamic_charge_full_uAh} :
    \E charge_now_uAh \in {(charge_full_uAh * soc_pct) \div 100} :
    \E status_int \in {status_from_shunt_mV(sample.shunt_voltage_mV)} :
    \E clamp \in {NearFullClamp(soc_pct, status_int)} :
    \E soc_out \in {IF clamp THEN 100 ELSE soc_pct} :
    \E charge_out \in {IF clamp THEN charge_full_uAh ELSE charge_now_uAh} :
    \E current_out \in {IF clamp THEN FULL_CURRENT_uA ELSE Abs(sample.current_A)} :
    \E status_out \in {IF clamp THEN 0 ELSE status_int} :
    \E current_now_avg_uA \in MicroAmpChoices(ca.ret) :
    \E remain \in battery_remain_sec(status_out, charge_full_uAh,
                                     charge_out, current_now_avg_uA) :
    \E now_s \in Times :
    \E cal \in {calibrate_if_full(dynamic_charge_full_uAh, last_calibration_time,
                                 CalibrationVoltage(sample.bus_voltage_mV,
                                                    bus_voltage_avg_mV),
                                 charge_now_uAh, now_s)} :
    \E saveOk \in (IF cal.fired THEN BOOLEAN ELSE {TRUE}) :
        /\ volt_hist' = va.buf
        /\ shunt_hist' = sa.buf
        /\ curr_hist' = ca.buf
        /\ power_hist' = pa.buf
        /\ dynamic_charge_full_uAh' = cal.full
        /\ last_calibration_time' = cal.last
        /\ calib_file' = IF cal.fired /\ saveOk
                         THEN SavedFile(cal.full, cal.last)
                         ELSE calib_file
        /\ cal_times' = IF cal.fired THEN Append(cal_times, now_s)
                        ELSE cal_times
        /\ payload' = << [ bus_voltage_mV       |-> sample.bus_voltage_mV,
                           bus_voltage_avg_mV   |-> bus_voltage_avg_mV,
                           shunt_voltage_mV     |-> sample.shunt_voltage_mV,
                           shunt_voltage_avg_mV |-> sa.ret,
                           current_A            |-> sample.current_A,
                           current_avg_A        |-> ca.ret,
                           power_W              |-> sample.power_W,
                           power_avg_W          |-> pa.ret,
                           soc_pct              |-> soc_out,
                           charge_full_uAh      |-> ReportedFull(charge_full_uAh,
                                                                cal.full),
                           charge_now_uAh       |-> charge_out,
                           current_now_uA       |-> current_out,
                           current_now_avg_uA   |-> current_now_avg_uA,
                           status_int           |-> status_out,
                           battery_remain_sec   |-> remain ] >>
        /\ UNCHANGED fn_vars

\* est.step called on its own
Step(sample) == StepCore(sample) /\ UNCHANGED main_vars

Next == \E sample \in Samples : Step(sample)

Spec == Init /\ [][Next]_vars

\* ---------------------------------------------------------------------
\* A single HistAvg fed arbitrary values
\* ---------------------------------------------------------------------
\* tenths (0.0, 0.1, 0.2, ...), counted in hundredths
HistValues == { v * (ShuntUnitsPer_mV \div 10) : v \in 0..MaxHistValue }

HistAdd(value) ==
    /\ Len(added) < MaxAdds
    /\ \E r \in {HistAvg_add(hist, value)} :
          /\ hist' = r.buf
          /\ \E off \in MeanOff(r.buf) :
                ret' = <<[num |-> r.ret.num, den |-> r.ret.den, off |-> off]>>
    /\ arg' = value
    /\ added' = Append(added, value)
    /\ UNCHANGED <<est_vars, main_vars>>

InitHist == Constructed(NoFile) /\ FnIdle /\ MainIdle
NextHist == \E value \in HistValues : HistAdd(value)
SpecHist == InitHist /\ [][NextHist]_vars

\* ---------------------------------------------------------------------
\* soc_percent_from_voltage_mV applied to voltages around the range
\* ---------------------------------------------------------------------
SocInputs == (BAT_VOLTAGE_EMPTY_mV - SocMargin)..(BAT_VOLTAGE_FULL_mV + SocMargin)

SocCall(v_mV) ==
    /\ arg' = v_mV
    /\ ret' = <<soc_percent_from_voltage_mV(v_mV)>>
    /\ UNCHANGED <<est_vars, hist, added, main_vars>>

InitSoc ==
    /\ Constructed(NoFile)
    /\ hist = <<>>
    /\ added = <<>>
    /\ arg \in SocInputs
    /\ ret = <<>>
    /\ MainIdle
NextSoc == \E delta \in (-MaxDelta)..MaxDelta :
              /\ arg + delta \in SocInputs
              /\ SocCall(arg + delta)
SpecSoc == InitSoc /\ [][NextSoc]_vars

\* ---------------------------------------------------------------------
\* status_from_shunt_mV applied to readings around the thresholds
\* ---------------------------------------------------------------------
ShuntInputs == (THRESHOLD_DISCHARGE_mV - ShuntMargin)..(THRESHOLD_CHARGE_mV + ShuntMargin)

StatusCall(shunt_mV) ==
    /\ arg' = shunt_mV
    /\ ret' = <<status_from_shunt_mV(shunt_mV)>>
    /\ UNCHANGED <<est_vars, hist, added, main_vars>>

InitStatus ==
    /\ Constructed(NoFile)
    /\ hist = <<>>
    /\ added = <<>>
    /\ arg \in ShuntInputs
    /\ ret = <<>>
    /\ MainIdle
NextStatus == \E shunt_mV \in ShuntInputs : StatusCall(shunt_mV)
SpecStatus == InitStatus /\ [][NextStatus]_vars

\* ---------------------------------------------------------------------
\* The calibration controller and its file: calibrate_if_full called with
\* arbitrary arguments, and the estimator constructed anew over the file
\* ---------------------------------------------------------------------
\* lines of a calibration file: well-formed and malformed values of both
\* keys, a negative capacity and a comment
LineKinds ==
    { KvLine("DYNAMIC_CHARGE_FULL", <<"2", "0">>),
      KvLine("DYNAMIC_CHARGE_FULL", <<"x">>),
      KvLine("DYNAMIC_CHARGE_FULL", <<"-", "7">>),
      KvLine("LAST_CALIBRATION_TIME", <<"3", "6", "0", "0">>),
      KvLine("LAST_CALIBRATION_TIME", <<>>),
      OtherLine("comment") }

\* no file, and every file of up to MaxLines such lines
CalFiles ==
    {NoFile} \cup
    { [exists |-> TRUE, lines |-> l] :
          l \in UNION { [1..n -> LineKinds] : n \in 0..MaxLines } }

\* voltages just below and on the lower edge of the near-full window
CalVoltages ==
    { BAT_VOLTAGE_FULL_mV - BAT_VOLTAGE_HYST_mV + k : k \in -1..0 }

\* charges: none, just below the full capacity, and the full capacity
CalCharges(full) == {0, full - 1, full}

\* timestamps one second before and exactly one interval after the last
\* calibration, up to MaxHours intervals
CalTimes(last) ==
    { last + CALIBRATION_INTERVAL_S + k : k \in -1..0 }
        \cap 0..(MaxHours * CALIBRATION_INTERVAL_S)

\* calibrate_if_full(voltage_mV, charge_now_uAh, now_s) with its call of
\* _save_calibration, whose write succeeds (saveOk) or fails and is logged
CalibrateCall(voltage_mV, charge_now_uAh, now_s) ==
    \E cal \in {calibrate_if_full(dynamic_charge_full_uAh, last_calibration_time,
                                 voltage_mV, charge_now_uAh, now_s)} :
    \E saveOk \in (IF cal.fired THEN BOOLEAN ELSE {TRUE}) :
       /\ dynamic_charge_full_uAh' = cal.full
       /\ last_calibration_time' = cal.last
       /\ calib_file' = IF cal.fired /\ saveOk
                        THEN SavedFile(cal.full, cal.last)
                        ELSE calib_file
       /\ arg' = 0
       /\ ret' = << [op      |-> "calibrate",
                     call    |-> [voltage_mV |-> voltage_mV,
                                  charge_now_uAh |-> charge_now_uAh,
                                  now_s |-> now_s],
                     saves   |-> IF cal.fired
                                 THEN <<[full |-> cal.full, last |-> cal.last]>>
                                 ELSE <<>>,
                     written |-> cal.fired /\ saveOk,
                     before  |-> [full |-> dynamic_charge_full_uAh,
                                  last |-> last_calibration_time]] >>
       /\ UNCHANGED <<volt_hist, shunt_hist, curr_hist, power_hist,
                      payload, cal_times, hist, added, main_vars>>

\* BatteryEstimator() of a new process over the file left by the old one
Restart ==
    /\ dynamic_charge_full_uAh' = LoadCalibration(calib_file).full
    /\ last_calibration_time' = LoadCalibration(calib_file).last
    /\ arg' = 0
    /\ ret' = << [op      |-> "load",
                  call    |-> [voltage_mV |-> 0, charge_now_uAh |-> 0, now_s |-> 0],
                  saves   |-> <<>>,
                  written |-> /\ ret # <<>>
                              /\ ret[1].op = "calibrate"
                              /\ ret[1].written,
                  before  |-> [full |-> dynamic_charge_full_uAh,
                               last |-> last_calibration_time]] >>
    /\ UNCHANGED <<volt_hist, shunt_hist, curr_hist, power_hist,
                   calib_file, payload, cal_times, hist, added, main_vars>>

InitCal ==
    /\ \E f \in CalFiles : Constructed(f)
    /\ FnIdle
    /\ MainIdle
NextCal ==
    \/ \E voltage_mV \in CalVoltages :
          \E now_s \in CalTimes(last_calibration_time) :
          \E charge_now_uAh \in CalCharges(dynamic_charge_full_uAh) :
             CalibrateCall(voltage_mV, charge_now_uAh, now_s)
    \/ Restart
SpecCal == InitCal /\ [][NextCal]_vars

\* ---------------------------------------------------------------------
\* main: the bus is opened, the estimator constructed, and inside
\* try / except KeyboardInterrupt / finally the sensor is configured and
\* the loop reads, steps, writes and sleeps.  An exception raised inside
\* the try runs ina.close() in the finally clause; KeyboardInterrupt is
\* swallowed, any other exception leaves main after the close.
\* ---------------------------------------------------------------------
\* except KeyboardInterrupt: pass / finally: ina.close(), then main ends
Leave(cause) ==
    /\ pc' = "exited"
    /\ exit_cause' = cause
    /\ closes' = closes + 1
    /\ bus_held' = FALSE
    /\ UNCHANGED <<ticks, reading>>

\* ina = INA219(I2C_BUS, I2C_ADDR): SMBus(bus) opens the device or raises
AcquireBus(ok) ==
    /\ pc = "acquire"
    /\ IF ok
       THEN /\ pc' = "construct"
            /\ bus_held' = TRUE
            /\ UNCHANGED exit_cause
       ELSE /\ pc' = "exited"
            /\ exit_cause' = "open_error"
            /\ UNCHANGED bus_held
    /\ UNCHANGED <<closes, ticks, reading, est_vars, fn_vars>>

\* est = BatteryEstimator(), before the try: the defaults and the load.
\* An exception that escapes the constructor (KeyboardInterrupt while the
\* file is read, or the warning print failing on a closed stderr) leaves
\* main with no handler and no finally clause around it.
ConstructEstimator(ok) ==
    /\ pc = "construct"
    /\ IF ok
       THEN /\ pc' = "configure"
            /\ dynamic_charge_full_uAh' = LoadCalibration(calib_file).full
            /\ last_calibration_time' = LoadCalibration(calib_file).last
            /\ UNCHANGED exit_cause
       ELSE /\ pc' = "exited"
            /\ exit_cause' = "construct_error"
            /\ UNCHANGED <<dynamic_charge_full_uAh, last_calibration_time>>
    /\ UNCHANGED <<volt_hist, shunt_hist, curr_hist, power_hist, calib_file,
                   payload, cal_times, fn_vars, bus_held, closes, ticks, reading>>

\* ina.configure(): two register writes, either of which may raise OSError
Configure(ok) ==
    /\ pc = "configure"
    /\ IF ok
       THEN /\ pc' = "settle"
            /\ UNCHANGED <<bus_held, closes, exit_cause, ticks, reading>>
       ELSE Leave("configure_error")
    /\ UNCHANGED <<est_vars, fn_vars>>

\* time.sleep(1.0) before the loop
Settle ==
    /\ pc = "settle"
    /\ pc' = "read"
    /\ UNCHANGED <<bus_held, closes, exit_cause, ticks, reading, est_vars, fn_vars>>

\* ina.read_all(): four register reads; an OSError of the bus is caught by
\* no handler of the loop
ReadAll(ok, sample) ==
    /\ pc = "read"
    /\ ticks < MaxTicks
    /\ IF ok
       THEN /\ pc' = "step"
            /\ reading' = <<sample>>
            /\ UNCHANGED <<bus_held, closes, exit_cause, ticks>>
       ELSE Leave("read_error")
    /\ UNCHANGED <<est_vars, fn_vars>>

\* payload = est.step(...) on the sample just read
StepTick ==
    /\ pc = "step"
    /\ StepCore(reading[1])
    /\ pc' = "write"
    /\ UNCHANGED <<bus_held, closes, exit_cause, ticks, reading>>

\* write_batfile(payload): an OSError of the write is caught and logged
\* inside it
WriteBatfile ==
    /\ pc = "write"
    /\ pc' = "sleep"
    /\ UNCHANGED <<bus_held, closes, exit_cause, ticks, reading, est_vars, fn_vars>>

\* time.sleep(SAMPLE_PERIOD_S), the end of an iteration
Sleep ==
    /\ pc = "sleep"
    /\ pc' = "read"
    /\ ticks' = ticks + 1
    /\ reading' = <<>>
    /\ UNCHANGED <<bus_held, closes, exit_cause, est_vars, fn_vars>>

\* KeyboardInterrupt raised anywhere inside the try
Interrupt ==
    /\ pc \in {"configure", "settle", "read", "step", "write", "sleep"}
    /\ Leave("interrupt")
    /\ UNCHANGED <<est_vars, fn_vars>>

\* the process starts: no estimator yet, its fields at their defaults
InitMain ==
    /\ calib_file \in InitFiles
    /\ volt_hist = <<>>
    /\ shunt_hist = <<>>
    /\ curr_hist = <<>>
    /\ power_hist = <<>>
    /\ dynamic_charge_full_uAh = BAT_CAPACITY_mAh * 1000
    /\ last_calibration_time = 0
    /\ payload = <<>>
    /\ cal_times = <<>>
    /\ FnIdle
    /\ pc = "acquire"
    /\ bus_held = FALSE
    /\ closes = 0
    /\ exit_cause = "none"
    /\ ticks = 0
    /\ reading = <<>>

NextMain ==
    \/ \E ok \in BOOLEAN : AcquireBus(ok)
    \/ \E ok \in BOOLEAN : ConstructEstimator(ok)
    \/ \E ok \in BOOLEAN : Configure(ok)
    \/ Settle
    \/ \E ok \in BOOLEAN, sample \in Samples : ReadAll(ok, sample)
    \/ StepTick
    \/ WriteBatfile
    \/ Sleep
    \/ Interrupt

SpecMain == InitMain /\ [][NextMain]_vars

\* =====================================================================
\* Properties
\* =====================================================================

\* C1: any two calls that both mutate the calibration state, at times t1
\* (the earlier call) and t2 (the later call), have
\* t2 - t1 >= CALIBRATION_INTERVAL_S, whatever timestamps the ticks carry.
C1_CalibrationsAnIntervalApart ==
    \A i, j \in 1..Len(cal_times) :
        i < j => cal_times[j] - cal_times[i] >= CALIBRATION_INTERVAL_S

\* two calibrations have happened in this run
C1_TwoCalibrations == Len(cal_times) >= 2

\* C2: no call increases dynamic_charge_full_uAh: its value after a call is
\* less than or equal to its value before the call.
C2_FullCapacityNeverIncreases ==
    [][dynamic_charge_full_uAh' <= dynamic_charge_full_uAh]_vars

\* a calibration has lowered the nominal capacity
C2_CapacityLowered ==
    /\ Len(cal_times) = 1
    /\ ~calib_file.exists
    /\ dynamic_charge_full_uAh < BAT_CAPACITY_mAh * 1000

\* C3: dynamic_charge_full_uAh > 0 in every reachable state, starting from
\* the nominal capacity or a positive loaded value: no call takes a
\* positive capacity to one that is not positive.
C3_FullCapacityPositive ==
    [][dynamic_charge_full_uAh > 0 => dynamic_charge_full_uAh' > 0]_vars

\* C4: when the SoC of the averaged voltage is >= 100, or it is >=
\* BAT_FULL_CLAMP with the raw shunt voltage classified Full or Charging,
\* step returns soc_pct = 100, status Full, current_now_uA = 1000,
\* charge_now_uAh = charge_full_uAh and battery_remain_sec = 0; hence no
\* output is Charging with soc_pct >= 99 and none has soc_pct = 100 with a
\* status other than Full.
C4_NearFullOverride ==
    payload # <<>> =>
        LET p   == payload[1]
            soc == soc_percent_from_voltage_mV(p.bus_voltage_avg_mV)
            st  == status_from_shunt_mV(p.shunt_voltage_mV)
        IN  /\ (soc >= 100 \/ (soc >= BAT_FULL_CLAMP /\ st \in {0, 1}))
                 => /\ p.soc_pct = 100
                    /\ p.status_int = 0
                    /\ p.current_now_uA = FULL_CURRENT_uA
                    /\ p.charge_now_uAh = p.charge_full_uAh
                    /\ p.battery_remain_sec = 0
            /\ ~(p.status_int = 1 /\ p.soc_pct >= BAT_FULL_CLAMP)
            /\ p.soc_pct = 100 => p.status_int = 0

\* a tick at 99 % classified Charging came out as 100 % Full
C4_ClampedWhileCharging ==
    /\ payload # <<>>
    /\ soc_percent_from_voltage_mV(payload[1].bus_voltage_avg_mV) = BAT_FULL_CLAMP
    /\ status_from_shunt_mV(payload[1].shunt_voltage_mV) = 1
    /\ payload[1].soc_pct = 100
    /\ payload[1].status_int = 0

\* floor(a * 3600 / b) and whether a * 3600 / b is whole, for a >= 0, b > 0
SecondsFloor(a, b) ==
    ((a * 60) \div b) * 60 + (((a * 60) % b) * 60) \div b
SecondsWhole(a, b) == (((a * 60) % b) * 60) % b = 0

\* the charge that the projection divides by the averaged current
ProjectedCharge(p) ==
    IF p.status_int = 2 THEN p.charge_now_uAh
    ELSE p.charge_full_uAh - p.charge_now_uAh

\* C5 as stated: battery_remain_sec is 0 when Full or when
\* current_now_avg_uA <= 0, and otherwise
\* (charge div max(current_now_avg_uA, 1)) * 3600, with charge_now_uAh
\* when Discharging and charge_full_uAh - charge_now_uAh when Charging.
C5_IntegerDivisionFirst ==
    payload # <<>> =>
        LET p == payload[1]
        IN  p.battery_remain_sec =
                IF p.status_int = 0 \/ p.current_now_avg_uA <= 0 THEN 0
                ELSE (ProjectedCharge(p) \div Max(p.current_now_avg_uA, 1))
                         * 3600

\* C5 amended: battery_remain_sec is 0 when Full or when
\* current_now_avg_uA <= 0, and otherwise the truncation of
\* (charge / max(current_now_avg_uA, 1)) * 3600 with a true division, the
\* only truncation being the final one: floor(charge * 3600 / current), or
\* one less when that quotient is whole and charge / current is not an
\* exact double (in magnitude, with the sign of the charge, should a
\* loaded capacity be negative).
C5_TruncatedAfterScaling ==
    payload # <<>> =>
        LET p == payload[1]
            a == ProjectedCharge(p)
            b == Max(p.current_now_avg_uA, 1)
            r == IF a < 0 THEN -p.battery_remain_sec ELSE p.battery_remain_sec
        IN  IF p.status_int = 0 \/ p.current_now_avg_uA <= 0
            THEN p.battery_remain_sec = 0
            ELSE \/ r = SecondsFloor(Abs(a), b)
                 \/ /\ r = SecondsFloor(Abs(a), b) - 1
                    /\ SecondsWhole(Abs(a), b)
                    /\ ~IsDyadic(Abs(a), b)

\* a Discharging tick whose projection is not a whole number of hours
C5_FractionalHours ==
    /\ payload # <<>>
    /\ payload[1].status_int = 2
    /\ payload[1].current_now_avg_uA > 0
    /\ payload[1].battery_remain_sec % 3600 # 0

\* C6: soc_percent_from_voltage_mV is 0 for every v <= V_empty, 100 for
\* every v >= V_full, and non-decreasing: of two successive queries the
\* one at the higher voltage never gets the lower percentage.
C6_SocClampedAndMonotone ==
    [][ /\ arg' <= BAT_VOLTAGE_EMPTY_mV => ret' = <<0>>
        /\ arg' >= BAT_VOLTAGE_FULL_mV => ret' = <<100>>
        /\ (ret # <<>> /\ arg <= arg') => ret[1] <= ret'[1]
        /\ (ret # <<>> /\ arg' <= arg) => ret'[1] <= ret[1] ]_vars

\* a query just above the empty voltage has answered with a positive SoC
C6_LeftTheEmptyClamp ==
    /\ arg = BAT_VOLTAGE_EMPTY_mV + 1
    /\ ret # <<>>
    /\ ret[1] > 0

\* C7: for V_empty < v < V_full the result is the exact ceiling of
\* (v - V_empty) * 100 / (V_full - V_empty): the smallest integer p with
\* p * (V_full - V_empty) >= (v - V_empty) * 100, the quotient itself when
\* it is whole, and always within 1..100.
C7_SocIsExactCeiling ==
    (ret # <<>> /\ BAT_VOLTAGE_EMPTY_mV < arg /\ arg < BAT_VOLTAGE_FULL_mV) =>
        LET num == (arg - BAT_VOLTAGE_EMPTY_mV) * 100
            den == BAT_VOLTAGE_FULL_mV - BAT_VOLTAGE_EMPTY_mV
            p   == ret[1]
        IN  /\ p * den >= num
            /\ (p - 1) * den < num
            /\ p \in 1..100

\* a voltage whose quotient is whole (a quarter of the range) got it back
C7_WholeQuotient ==
    /\ ret # <<>>
    /\ BAT_VOLTAGE_EMPTY_mV < arg
    /\ arg < BAT_VOLTAGE_FULL_mV
    /\ ((arg - BAT_VOLTAGE_EMPTY_mV) * 100)
           % (BAT_VOLTAGE_FULL_mV - BAT_VOLTAGE_EMPTY_mV) = 0
    /\ ret[1] * (BAT_VOLTAGE_FULL_mV - BAT_VOLTAGE_EMPTY_mV)
           = (arg - BAT_VOLTAGE_EMPTY_mV) * 100

\* the entries a deque of capacity MaxHistory retains of everything added
Retained == LastN(added, Min(Len(added), MaxHistory))

\* the stream so far is the constant `arg`
ConstantStream == \A i \in 1..Len(added) : added[i] = arg

\* C8 as stated: after the append, add returns its argument unchanged
\* while fewer than AvgWindow samples are held, and otherwise the
\* arithmetic mean of all retained entries; on a constant stream every
\* returned value equals the constant.
C8_ConstantStreamExact ==
    ret # <<>> =>
        LET r == ret[1]
        IN  /\ Len(Retained) < AvgWindow =>
                   r = [num |-> arg, den |-> 1, off |-> FALSE]
            /\ Len(Retained) >= AvgWindow =>
                   r.num * Len(Retained) = SumSeq(Retained) * r.den
            /\ ConstantStream => r.num = arg * r.den /\ ~r.off

\* C8 (amended): passthrough of the argument below AvgWindow samples,
\* otherwise the floating-point mean of all retained entries; on a
\* constant stream the returned value is the constant up to the rounding
\* of the summation, and exactly the constant while it is passed through,
\* while at most two entries are held, or when the constant is an exact
\* double with exact sums.
C8_PassthroughThenMeanOfAll ==
    ret # <<>> =>
        LET r == ret[1]
        IN  /\ Len(Retained) < AvgWindow =>
                   r = [num |-> arg, den |-> 1, off |-> FALSE]
            /\ Len(Retained) >= AvgWindow =>
                   r.num * Len(Retained) = SumSeq(Retained) * r.den
            /\ ConstantStream =>
                   /\ r.num = arg * r.den
                   /\ (\/ Len(Retained) <= 2
                       \/ IsDyadic(arg, ShuntUnitsPer_mV)) => ~r.off

\* a warmed-up averager fed the same inexact value three times returned
\* a double next to it
C8_ConstantStreamRounded ==
    /\ ret # <<>>
    /\ Len(hist) > 2
    /\ Len(hist) >= AvgWindow
    /\ ConstantStream
    /\ ret[1].num = arg * ret[1].den
    /\ ret[1].off

\* C9: the buffer never holds more than MaxHistory entries and always
\* equals the last min(n, MaxHistory) values added, in insertion order.
C9_BoundedFifo ==
    /\ Len(hist) <= MaxHistory
    /\ hist = Retained

\* the buffer is full and has dropped the first value added
C9_OldestEvicted ==
    /\ Len(added) > MaxHistory
    /\ Len(hist) = MaxHistory
    /\ hist[1] # added[1]

\* C10: Discharging exactly below THRESHOLD_DISCHARGE_mV, Charging exactly
\* above THRESHOLD_CHARGE_mV, Full on and between the two thresholds.
C10_StrictThresholds ==
    ret # <<>> =>
        /\ ret[1] \in {0, 1, 2}
        /\ ret[1] = 2 <=> arg < THRESHOLD_DISCHARGE_mV
        /\ ret[1] = 1 <=> arg > THRESHOLD_CHARGE_mV
        /\ arg \in {THRESHOLD_DISCHARGE_mV, THRESHOLD_CHARGE_mV} => ret[1] = 0

\* the discharge threshold itself was classified Full
C10_BoundaryIsFull ==
    /\ arg = THRESHOLD_DISCHARGE_mV
    /\ ret = <<0>>

\* C11 as stated: a Discharging output with charge_now_uAh = 3600000 and
\* current_now_avg_uA = 1000000 has battery_remain_sec = 3600.
C11_ExampleGives3600 ==
    (/\ payload # <<>>
     /\ payload[1].status_int = 2
     /\ payload[1].charge_now_uAh = 3600000
     /\ payload[1].current_now_avg_uA = 1000000)
        => payload[1].battery_remain_sec = 3600

\* C11 (amended): a Discharging output with charge_now_uAh = 3600000 and
\* current_now_avg_uA = 1000000 has battery_remain_sec = 12960, the 3.6
\* hours that 3.6 Ah last at 1 A.
C11_ExampleGives12960 ==
    (/\ payload # <<>>
     /\ payload[1].status_int = 2
     /\ payload[1].charge_now_uAh = 3600000
     /\ payload[1].current_now_avg_uA = 1000000)
        => payload[1].battery_remain_sec = 12960

\* step has returned a Discharging state with exactly these two values
C11_ExampleOccurs ==
    /\ payload # <<>>
    /\ payload[1].status_int = 2
    /\ payload[1].charge_now_uAh = 3600000
    /\ payload[1].current_now_avg_uA = 1000000

\* C12: every state returned by step has soc_pct in 0..100, a status among
\* Full (0), Charging (1), Discharging (2), and battery_remain_sec >= 0.
C12_OutputRanges ==
    payload # <<>> =>
        /\ payload[1].soc_pct \in 0..100
        /\ payload[1].status_int \in {0, 1, 2}
        /\ payload[1].battery_remain_sec >= 0

\* C13: a successful _save_calibration followed by _load_calibration into
\* a fresh estimator yields exactly the two field values that were saved.
C13_SaveLoadRoundTrip ==
    (ret # <<>> /\ ret[1].op = "load" /\ ret[1].written) =>
        /\ dynamic_charge_full_uAh = ret[1].before.full
        /\ last_calibration_time = ret[1].before.last

\* a negative capacity was saved and read back by a fresh estimator
C13_ReloadedAfterSave ==
    /\ ret # <<>>
    /\ ret[1].op = "load"
    /\ ret[1].written
    /\ dynamic_charge_full_uAh < 0
    /\ last_calibration_time > 0

\* C14: calibrate_if_full mutates the calibration state exactly when
\* now - last_calibration_time >= CALIBRATION_INTERVAL_S, voltage >=
\* V_full - hysteresis (boundary included) and charge_now < the full
\* capacity; then the capacity becomes floor((old * 19 + charge_now) / 20),
\* last_calibration_time becomes now and the new values are handed to
\* _save_calibration once, which leaves them in the file when its write
\* succeeds; otherwise both fields and the file are unchanged and nothing
\* is saved.
C14_MutatesExactlyWhenGuardsPass ==
    [][ (ret' # <<>> /\ ret'[1].op = "calibrate") =>
          LET guards ==
                  /\ ret'[1].call.now_s - last_calibration_time >= CALIBRATION_INTERVAL_S
                  /\ ret'[1].call.voltage_mV >= BAT_VOLTAGE_FULL_mV - BAT_VOLTAGE_HYST_mV
                  /\ ret'[1].call.charge_now_uAh < dynamic_charge_full_uAh
          IN  IF guards
              THEN /\ dynamic_charge_full_uAh' =
                          (dynamic_charge_full_uAh * 19 + ret'[1].call.charge_now_uAh) \div 20
                   /\ last_calibration_time' = ret'[1].call.now_s
                   /\ ret'[1].saves = <<[full |-> dynamic_charge_full_uAh',
                                         last |-> last_calibration_time']>>
                   /\ calib_file' = IF ret'[1].written
                                    THEN SavedFile(dynamic_charge_full_uAh',
                                                   last_calibration_time')
                                    ELSE calib_file
              ELSE /\ dynamic_charge_full_uAh' = dynamic_charge_full_uAh
                   /\ last_calibration_time' = last_calibration_time
                   /\ calib_file' = calib_file
                   /\ ret'[1].saves = <<>>
                   /\ ~ret'[1].written ]_vars

\* a call with the voltage exactly on the lower edge of the near-full
\* window has calibrated and its values are in the file
C14_FiredOnTheBoundary ==
    /\ ret # <<>>
    /\ ret[1].op = "calibrate"
    /\ ret[1].call.voltage_mV = BAT_VOLTAGE_FULL_mV - BAT_VOLTAGE_HYST_mV
    /\ ret[1].saves # <<>>
    /\ dynamic_charge_full_uAh < ret[1].before.full
    /\ calib_file = SavedFile(dynamic_charge_full_uAh, last_calibration_time)

\* the value of the last well-formed line of `key`, or `default`: what a
\* load that skips malformed lines one by one would leave in the field
RECURSIVE LastWellFormed(_, _, _)
LastWellFormed(lines, key, default) ==
    IF lines = <<>> THEN default
    ELSE LET ln == Head(lines)
         IN  IF ln.form = "kv" /\ ln.k = key /\ ParseInt(ln.v).ok
             THEN LastWellFormed(Tail(lines), key, ParseInt(ln.v).val)
             ELSE LastWellFormed(Tail(lines), key, default)

\* C17: after a load, each field holds the value of its last well-formed
\* line, whether or not a malformed line comes before it, and its default
\* when it has no well-formed line; the construction always completes.
C17_EveryWellFormedLineApplied ==
    (ret = <<>> \/ ret[1].op = "load") =>
        /\ dynamic_charge_full_uAh =
               LastWellFormed(calib_file.lines, "DYNAMIC_CHARGE_FULL",
                              BAT_CAPACITY_mAh * 1000)
        /\ last_calibration_time =
               LastWellFormed(calib_file.lines, "LAST_CALIBRATION_TIME", 0)

\* the SoC that a step computed from its averaged voltage, before the
\* near-full override, recovered from the dict it returned
SocBeforeOverride(p) == soc_percent_from_voltage_mV(p.bus_voltage_avg_mV)

\* C15: the calibration of a tick is decided on the raw bus voltage and on
\* the charge floor(charge_full * soc / 100) of before the near-full
\* override: a tick calibrates only with its raw voltage inside the
\* near-full window and that charge below the capacity, the update uses
\* that charge, and a tick with both (and the rate limit passed whatever
\* its timestamp) does calibrate, whatever its averaged voltage and whether
\* or not the override then reports charge_now = charge_full.
C15_CalibrationSeesRawAndUnclamped ==
    [][ LET p       == payload'[1]
            pre_uAh == (dynamic_charge_full_uAh * SocBeforeOverride(p)) \div 100
            inside  == p.bus_voltage_mV >= BAT_VOLTAGE_FULL_mV - BAT_VOLTAGE_HYST_mV
            fired   == cal_times' # cal_times
        IN  /\ fired => /\ inside
                        /\ pre_uAh < dynamic_charge_full_uAh
                        /\ dynamic_charge_full_uAh' =
                               (dynamic_charge_full_uAh * 19 + pre_uAh) \div 20
            /\ (/\ inside
                /\ pre_uAh < dynamic_charge_full_uAh
                /\ \A t \in Times :
                       t - last_calibration_time >= CALIBRATION_INTERVAL_S)
                   => fired
            /\ ~fired => dynamic_charge_full_uAh' = dynamic_charge_full_uAh ]_vars

\* a tick at 99 % was reported as 100 % with charge_now = charge_full, and
\* the same tick calibrated with the 99 % charge
C15_CalibratedUnderTheOverride ==
    /\ payload # <<>>
    /\ SocBeforeOverride(payload[1]) = BAT_FULL_CLAMP
    /\ payload[1].soc_pct = 100
    /\ payload[1].charge_now_uAh = payload[1].charge_full_uAh
    /\ payload[1].bus_voltage_avg_mV < BAT_VOLTAGE_FULL_mV
    /\ dynamic_charge_full_uAh < payload[1].charge_full_uAh
    /\ dynamic_charge_full_uAh =
           (payload[1].charge_full_uAh * 19
              + (payload[1].charge_full_uAh * BAT_FULL_CLAMP) \div 100) \div 20

\* C19: no tick whose SoC computed from the averaged voltage is 100
\* calibrates; every tick that calibrates has that SoC below 100 and takes
\* the capacity strictly down, to a value not below the charge it saw.
C19_CalibrationOnlyBelowFull ==
    [][ cal_times' # cal_times =>
          LET p       == payload'[1]
              pre_uAh == (dynamic_charge_full_uAh * SocBeforeOverride(p)) \div 100
          IN  /\ SocBeforeOverride(p) < 100
              /\ pre_uAh <= dynamic_charge_full_uAh'
              /\ dynamic_charge_full_uAh' < dynamic_charge_full_uAh ]_vars

\* a Discharging tick at 99 % lowered the capacity to a value above the
\* charge it saw
C19_CalibratedBelowFull ==
    /\ payload # <<>>
    /\ SocBeforeOverride(payload[1]) = BAT_FULL_CLAMP
    /\ payload[1].status_int = 2
    /\ dynamic_charge_full_uAh < payload[1].charge_full_uAh
    /\ payload[1].charge_now_uAh < dynamic_charge_full_uAh

\* C20: the charge_full_uAh of a returned state is the capacity as it was
\* when step was called; it equals the stored capacity after the call on a
\* tick that does not calibrate and is strictly larger than it on a tick
\* that does, the charge_now_uAh being derived from the reported value.
C20_ReportsCapacityOfBeforeTheTick ==
    [][ LET p == payload'[1]
        IN  /\ p.charge_full_uAh = dynamic_charge_full_uAh
            /\ cal_times' = cal_times =>
                   p.charge_full_uAh = dynamic_charge_full_uAh'
            /\ cal_times' # cal_times =>
                   p.charge_full_uAh > dynamic_charge_full_uAh'
            /\ p.charge_now_uAh \in
                   { (p.charge_full_uAh * SocBeforeOverride(p)) \div 100,
                     p.charge_full_uAh } ]_vars

\* the first calibration of a run: the tick still reported the nominal
\* capacity while the stored one is already lower
C20_ReportedBeforeUpdate ==
    /\ payload # <<>>
    /\ Len(cal_times) = 1
    /\ last_calibration_time = cal_times[1]
    /\ payload[1].charge_full_uAh = BAT_CAPACITY_mAh * 1000
    /\ dynamic_charge_full_uAh < BAT_CAPACITY_mAh * 1000

\* C16: a sensor read failure is never fatal: main does not end because
\* read_all raised, the failing tick is skipped and the loop goes on.
C16_ReadFailureNotFatal ==
    ~(pc = "exited" /\ exit_cause = "read_error")

\* C18: whenever main has ended after the bus was acquired, by an
\* interrupt or by an error of the constructor, configure, read, step or
\* write, ina.close() has been called exactly once.
C18_BusReleasedOnExit ==
    (pc = "exited" /\ exit_cause # "open_error") =>
        /\ closes = 1
        /\ ~bus_held

====
